---- MODULE Spec2Model ----
(***************************************************************************)
(* A model of aws-rds-signer: the Signer configuration holder, its         *)
(* SignerBuilder, and Signer::fetch_token (src/src/sign.rs).               *)
(*                                                                         *)
(* Text is modelled as sequences of one-character strings, so that URL     *)
(* formatting, the two URL parsers fetch_token goes through (http::Uri in  *)
(* SignableRequest::new, then url::Url::parse), percent-encoding and the   *)
(* final split_off are computed character by character.  The keyed hashes  *)
(* of SigV4 are modelled symbolically: a hash is the term of its inputs,   *)
(* so two hashes are equal exactly when their inputs are.                  *)
(***************************************************************************)
EXTENDS Integers, Sequences, FiniteSets, Bags, TLC

(***************************************************************************)
(* Option<T>: None is the empty sequence, Some(x) the one-element one.     *)
(***************************************************************************)
None == << >>
Some(x) == << x >>
IsSome(o) == Len(o) = 1
Unwrap(o) == o[1]

(***************************************************************************)
(* Text helpers.                                                           *)
(***************************************************************************)
\* Binding by parameter: With(v, LAMBDA x : e) is e with x bound to v.
With(v, F(_)) == F(v)
Min(S) == CHOOSE x \in S : \A y \in S : x <= y
Max(S) == CHOOSE x \in S : \A y \in S : x >= y
Take(s, n) == SubSeq(s, 1, n)
Drop(s, n) == SubSeq(s, n + 1, Len(s))
\* The first index i >= from with s[i] in C, or Len(s) + 1 when there is none.
FirstIndex(s, C, from) ==
    With({i \in from..Len(s) : s[i] \in C}, LAMBDA I :
         IF I = {} THEN Len(s) + 1 ELSE Min(I))
StartsWith(s, p) == Len(s) >= Len(p) /\ Take(s, Len(p)) = p
\* The pieces of s between the occurrences of separator c (like str::split).
RECURSIVE Split(_, _)
Split(s, c) ==
    With(FirstIndex(s, {c}, 1), LAMBDA i :
         IF i > Len(s) THEN << s >>
         ELSE << Take(s, i - 1) >> \o Split(Drop(s, i), c))
\* The concatenation of the sequences of ss (halving, to keep recursion flat).
RECURSIVE Flatten(_)
Flatten(ss) ==
    IF Len(ss) = 0 THEN << >>
    ELSE IF Len(ss) = 1 THEN ss[1]
    ELSE Flatten(Take(ss, Len(ss) \div 2)) \o Flatten(Drop(ss, Len(ss) \div 2))

DigitChars == << "0", "1", "2", "3", "4", "5", "6", "7", "8", "9" >>
IsDigit(c) == \E i \in 1..10 : DigitChars[i] = c
DigitValue(c) == (CHOOSE i \in 1..10 : DigitChars[i] = c) - 1
\* Display of an unsigned integer ({port}, as_secs().to_string()).
RECURSIVE ToDecimal(_)
ToDecimal(n) ==
    IF n < 10 THEN << DigitChars[n + 1] >>
    ELSE ToDecimal(n \div 10) \o << DigitChars[(n % 10) + 1] >>
Pad2(n) == << DigitChars[((n \div 10) % 10) + 1], DigitChars[(n % 10) + 1] >>
Pad4(n) == Pad2(n \div 100) \o Pad2(n % 100)

UpperChars == << "A", "B", "C", "D", "E", "F", "G", "H", "I", "J", "K", "L", "M",
                 "N", "O", "P", "Q", "R", "S", "T", "U", "V", "W", "X", "Y", "Z" >>
LowerChars == << "a", "b", "c", "d", "e", "f", "g", "h", "i", "j", "k", "l", "m",
                 "n", "o", "p", "q", "r", "s", "t", "u", "v", "w", "x", "y", "z" >>
IsUpper(c) == \E i \in 1..26 : UpperChars[i] = c
ToLowerChar(c) ==
    IF IsUpper(c) THEN LowerChars[CHOOSE i \in 1..26 : UpperChars[i] = c] ELSE c
ToLower(s) == [i \in 1..Len(s) |-> ToLowerChar(s[i])]

(***************************************************************************)
(* Literals of the program and of the libraries it calls.                  *)
(***************************************************************************)
HttpsPrefix == << "h", "t", "t", "p", "s", ":", "/", "/" >>
ActionConnect == << "A", "c", "t", "i", "o", "n", "=", "c", "o", "n", "n", "e", "c", "t" >>
DBUserKey == << "D", "B", "U", "s", "e", "r" >>
ActionKey == << "A", "c", "t", "i", "o", "n" >>
ConnectValue == << "c", "o", "n", "n", "e", "c", "t" >>
Localhost == << "l", "o", "c", "a", "l", "h", "o", "s", "t" >>
Postgres == << "p", "o", "s", "t", "g", "r", "e", "s" >>
UsEast1 == << "u", "s", "-", "e", "a", "s", "t", "-", "1" >>
RdsDb == << "r", "d", "s", "-", "d", "b" >>
Aws4Request == << "a", "w", "s", "4", "_", "r", "e", "q", "u", "e", "s", "t" >>
Aws4HmacSha256 == << "A", "W", "S", "4", "-", "H", "M", "A", "C", "-",
                     "S", "H", "A", "2", "5", "6" >>
HostHeader == << "h", "o", "s", "t" >>
XAmz == << "X", "-", "A", "m", "z", "-" >>
X_AMZ_ALGORITHM == XAmz \o << "A", "l", "g", "o", "r", "i", "t", "h", "m" >>
X_AMZ_CREDENTIAL == XAmz \o << "C", "r", "e", "d", "e", "n", "t", "i", "a", "l" >>
X_AMZ_DATE == XAmz \o << "D", "a", "t", "e" >>
X_AMZ_EXPIRES == XAmz \o << "E", "x", "p", "i", "r", "e", "s" >>
X_AMZ_SIGNED_HEADERS == XAmz \o << "S", "i", "g", "n", "e", "d", "H", "e", "a", "d", "e", "r", "s" >>
X_AMZ_SIGNATURE == XAmz \o << "S", "i", "g", "n", "a", "t", "u", "r", "e" >>
X_AMZ_SECURITY_TOKEN == XAmz \o << "S", "e", "c", "u", "r", "i", "t", "y", "-",
                                   "T", "o", "k", "e", "n" >>

(***************************************************************************)
(* Result<String, Error> (src/src/lib.rs: enum Error).  An Ok carries the  *)
(* token, an Err its kind and message.                                     *)
(***************************************************************************)
ParseError == "ParseError"
SignerError == "SignerError"
EnvVarError == "EnvVarError"
ErrorKinds == {ParseError, SignerError, EnvVarError}
Ok(token) == [ok |-> TRUE, token |-> token, kind |-> "", msg |-> ""]
Err(kind, msg) == [ok |-> FALSE, token |-> << >>, kind |-> kind, msg |-> msg]

(***************************************************************************)
(* Percent-encoding.  PctCodes gives the two hex digits of the ASCII       *)
(* characters the model's alphabets hold outside letters, digits and       *)
(* "*-._"; every other character stands for itself under every encoder.   *)
(***************************************************************************)
PctChars == << " ", "\"", "#", "%", "&", "'", "+", "/", ":", "<", "=", ">", "?", "@" >>
PctCodes == << <<"2", "0">>, <<"2", "2">>, <<"2", "3">>, <<"2", "5">>, <<"2", "6">>,
               <<"2", "7">>, <<"2", "B">>, <<"2", "F">>, <<"3", "A">>, <<"3", "C">>,
               <<"3", "D">>, <<"3", "E">>, <<"3", "F">>, <<"4", "0">> >>
HasPctCode(c) == \E i \in 1..Len(PctChars) : PctChars[i] = c
PctEncodeChar(c) == << "%" >> \o PctCodes[CHOOSE i \in 1..Len(PctChars) : PctChars[i] = c]
\* percent_encoding::utf8_percent_encode(s, set): the characters of the given set escaped.
PctEncode(s, set) ==
    Flatten([i \in 1..Len(s) |-> IF s[i] \in set THEN PctEncodeChar(s[i]) ELSE << s[i] >>])

\* form_urlencoded::byte_serialize: letters, digits and "*-._" stay, a space
\* becomes "+", every other byte becomes %XX.
ByteSerialize(s) ==
    Flatten([i \in 1..Len(s) |->
        IF s[i] = " " THEN << "+" >>
        ELSE IF HasPctCode(s[i]) THEN PctEncodeChar(s[i])
        ELSE << s[i] >>])

\* form_urlencoded's decode: "+" is a space, then %XX is the byte XX (a "%"
\* that no known XX follows stays as it is).
PctDecodePiece(p) ==
    IF Len(p) >= 2 /\ \E i \in 1..Len(PctCodes) : PctCodes[i] = << p[1], p[2] >>
    THEN << PctChars[CHOOSE i \in 1..Len(PctCodes) : PctCodes[i] = << p[1], p[2] >>] >>
         \o Drop(p, 2)
    ELSE << "%" >> \o p
FormDecode(s) ==
    With(Split([i \in 1..Len(s) |-> IF s[i] = "+" THEN " " ELSE s[i]], "%"),
         LAMBDA pieces :
         Flatten([i \in 1..Len(pieces) |->
                     IF i = 1 THEN pieces[i] ELSE PctDecodePiece(pieces[i])]))

\* form_urlencoded::parse: the (name, value) pairs of a query string: split
\* at "&", empty pieces skipped, each piece split at its first "=".
FormPair(p) ==
    With(FirstIndex(p, {"="}, 1), LAMBDA i :
         << FormDecode(Take(p, i - 1)), FormDecode(Drop(p, i)) >>)
FormParse(q) ==
    With(SelectSeq(Split(q, "&"), LAMBDA p : p # << >>), LAMBDA pieces :
         [i \in 1..Len(pieces) |-> FormPair(pieces[i])])

(***************************************************************************)
(* http::Uri, the parser behind SignableRequest::new.  UriInvalid* are the *)
(* printable ASCII characters the parser's tables refuse in the authority, *)
(* the path and the query.  The hosts of the model hold no "@", "[" or "]" *)
(* so userinfo and IPv6 literals are not modelled.                         *)
(***************************************************************************)
UriInvalidAuthorityChars == {" ", "\"", "<", ">", "\\", "^", "{", "|", "}"}
UriInvalidPathChars == {" ", "<", ">"}
UriInvalidQueryChars == {" ", "\"", "<", ">"}
UriBad(e) ==
    [ok |-> FALSE, err |-> e, authority |-> << >>, host |-> << >>, port |-> None,
     path |-> << >>, query |-> None]
\* Authority::parse and the accessors host() and port() of the authority.
HttpAuthority(auth) ==
    With(FirstIndex(auth, {":"}, 1) - 1, LAMBDA hend :
    With(Drop(auth, hend + 1), LAMBDA portText :
         IF \E i \in 1..Len(auth) : auth[i] \in UriInvalidAuthorityChars
         THEN UriBad("invalid uri character")
         ELSE IF Cardinality({i \in 1..Len(auth) : auth[i] = ":"}) > 1
                 \/ (\E i \in 1..Len(auth) : auth[i] = "%")
         THEN UriBad("invalid authority")
         ELSE IF auth = << >> THEN UriBad("invalid format")
         ELSE [UriBad("") EXCEPT
                 !.ok = TRUE, !.authority = auth, !.host = Take(auth, hend),
                 !.port = IF portText # << >>
                             /\ \A i \in 1..Len(portText) : IsDigit(portText[i])
                          THEN Some(portText) ELSE None]))
\* PathAndQuery::from_shared: the path up to "?", the query up to "#"; the
\* fragment is dropped.
HttpPathAndQuery(uri, pq) ==
    With(FirstIndex(pq, {"?", "#"}, 1) - 1, LAMBDA pend :
    With(Take(pq, pend), LAMBDA path :
    With(pend < Len(pq) /\ pq[pend + 1] = "?", LAMBDA hasQuery :
    With(Take(Drop(pq, pend + 1), FirstIndex(Drop(pq, pend + 1), {"#"}, 1) - 1),
         LAMBDA query :
         IF \E i \in 1..Len(path) : path[i] \in UriInvalidPathChars
         THEN UriBad("invalid uri character")
         ELSE IF hasQuery /\ \E i \in 1..Len(query) : query[i] \in UriInvalidQueryChars
         THEN UriBad("invalid uri character")
         ELSE [uri EXCEPT !.path = IF path = << >> THEN << "/" >> ELSE path,
                          !.query = IF hasQuery THEN Some(query) ELSE None]))))
HttpUriParse(s) ==
    IF ~StartsWith(s, HttpsPrefix) THEN UriBad("invalid format")
    ELSE With(Drop(s, Len(HttpsPrefix)), LAMBDA rest :
         With(FirstIndex(rest, {"/", "?", "#"}, 1) - 1, LAMBDA aend :
         With(HttpAuthority(Take(rest, aend)), LAMBDA uri :
              IF ~uri.ok THEN uri ELSE HttpPathAndQuery(uri, Drop(rest, aend)))))

(***************************************************************************)
(* url::Url (the WHATWG URL parser) for the https scheme.  The hosts of    *)
(* the model hold no "@", "[", "]" or "%" and do not end in a number, so   *)
(* userinfo, IPv6/IPv4 literals and percent-decoded hosts are not          *)
(* modelled; the path is kept as written (no dot segments occur).          *)
(***************************************************************************)
U16Max == 65535
HttpsDefaultPort == 443
ForbiddenHostChars == {" ", "#", "%", "/", ":", "<", ">", "?", "@", "[", "\\", "]", "^", "|"}
QueryEncodeSet == {" ", "\"", "#", "<", ">", "'"}
FragmentEncodeSet == {" ", "\"", "<", ">"}
RECURSIVE DecimalValue(_)
DecimalValue(ds) ==
    IF ds = << >> THEN 0 ELSE DecimalValue(Take(ds, Len(ds) - 1)) * 10 + DigitValue(ds[Len(ds)])
UrlBad(e) ==
    [ok |-> FALSE, err |-> e, host |-> << >>, port |-> None, path |-> << >>,
     query |-> None, fragment |-> None]
\* parse_port: the digits up to the first character that is none; a value
\* above u16::MAX or a stray character is an error; the default port of the
\* scheme is dropped.
UrlPort(portText) ==
    With(Min({i \in 1..(Len(portText) + 1) :
                i = Len(portText) + 1 \/ ~IsDigit(portText[i])}) - 1, LAMBDA digitsEnd :
         IF digitsEnd < Len(portText)
            \/ (\E n \in 1..digitsEnd : DecimalValue(Take(portText, n)) > U16Max)
         THEN [ok |-> FALSE, port |-> None]
         ELSE IF digitsEnd = 0 \/ DecimalValue(portText) = HttpsDefaultPort
         THEN [ok |-> TRUE, port |-> None]
         ELSE [ok |-> TRUE, port |-> Some(DecimalValue(portText))])
\* The host and the port of the authority: the host ends at the first ":".
UrlAuthority(auth) ==
    With(FirstIndex(auth, {":"}, 1) - 1, LAMBDA hend :
    With(Take(auth, hend), LAMBDA hostText :
    With(UrlPort(Drop(auth, hend + 1)), LAMBDA port :
         IF hostText = << >> THEN UrlBad("empty host")
         ELSE IF \E i \in 1..Len(hostText) : hostText[i] \in ForbiddenHostChars
         THEN UrlBad("invalid international domain name")
         ELSE IF ~port.ok THEN UrlBad("invalid port number")
         ELSE [UrlBad("") EXCEPT !.ok = TRUE, !.host = ToLower(hostText),
                                 !.port = port.port])))
\* The path up to "?" or "#", the query up to "#", the fragment.
UrlPathQueryFragment(url, tail) ==
    With(FirstIndex(tail, {"?", "#"}, 1) - 1, LAMBDA pend :
    With(Take(tail, pend), LAMBDA path :
    With(Drop(tail, pend), LAMBDA afterPath :
    With(IF afterPath # << >> /\ afterPath[1] = "?"
         THEN FirstIndex(afterPath, {"#"}, 1) - 1 ELSE 0, LAMBDA qend :
         [url EXCEPT
            !.path = IF path = << >> THEN << "/" >> ELSE path,
            !.query = IF qend > 0
                      THEN Some(PctEncode(SubSeq(afterPath, 2, qend), QueryEncodeSet))
                      ELSE None,
            !.fragment = IF qend < Len(afterPath)
                         THEN Some(PctEncode(Drop(afterPath, qend + 1), FragmentEncodeSet))
                         ELSE None]))))
UrlParse(s) ==
    IF ~StartsWith(s, HttpsPrefix) THEN UrlBad("relative URL without a base")
    ELSE With(Drop(s, Len(HttpsPrefix)), LAMBDA rest :
         With(FirstIndex(rest, {"/", "?", "#", "\\"}, 1) - 1, LAMBDA aend :
         With(UrlAuthority(Take(rest, aend)), LAMBDA url :
              IF ~url.ok THEN url ELSE UrlPathQueryFragment(url, Drop(rest, aend)))))

\* Url's Display / to_string: the serialization of the parsed URL.
UrlToString(u) ==
    HttpsPrefix \o u.host
    \o (IF IsSome(u.port) THEN << ":" >> \o ToDecimal(Unwrap(u.port)) ELSE << >>)
    \o u.path
    \o (IF IsSome(u.query) THEN << "?" >> \o Unwrap(u.query) ELSE << >>)
    \o (IF IsSome(u.fragment) THEN << "#" >> \o Unwrap(u.fragment) ELSE << >>)

\* url.query_pairs_mut().append_pair(name, value): the pair is written at the
\* end of the query, after "&" when the query is not empty; the fragment is
\* put aside and restored.
AppendPair(u, name, value) ==
    With(IF IsSome(u.query) THEN Unwrap(u.query) ELSE << >>, LAMBDA q :
         [u EXCEPT !.query = Some(q \o (IF q = << >> THEN << >> ELSE << "&" >>)
                                  \o ByteSerialize(name) \o << "=" >>
                                  \o ByteSerialize(value))])
RECURSIVE AppendPairs(_, _)
AppendPairs(u, params) ==
    IF params = << >> THEN u
    ELSE AppendPairs(AppendPair(u, params[1][1], params[1][2]), Tail(params))

(***************************************************************************)
(* Time: SystemTime as seconds since the Unix epoch, and aws-sigv4's       *)
(* format_date ("YYYYMMDD") and format_date_time ("YYYYMMDDTHHMMSSZ").     *)
(***************************************************************************)
CivilFromDays(days) ==
    With(days + 719468, LAMBDA z :
    With(z - (z \div 146097) * 146097, LAMBDA doe :
    With((doe - (doe \div 1460) + (doe \div 36524) - (doe \div 146096)) \div 365,
         LAMBDA yoe :
    With(doe - (365 * yoe + (yoe \div 4) - (yoe \div 100)), LAMBDA doy :
    With((5 * doy + 2) \div 153, LAMBDA mp :
    With(IF mp < 10 THEN mp + 3 ELSE mp - 9, LAMBDA m :
         [year |-> yoe + (z \div 146097) * 400 + (IF m <= 2 THEN 1 ELSE 0),
          month |-> m,
          day |-> doy - ((153 * mp + 2) \div 5) + 1]))))))
FormatDate(t) ==
    With(CivilFromDays(t \div 86400), LAMBDA c :
         Pad4(c.year) \o Pad2(c.month) \o Pad2(c.day))
FormatDateTime(t) ==
    With(t % 86400, LAMBDA sec :
         FormatDate(t) \o << "T" >> \o Pad2(sec \div 3600) \o Pad2((sec % 3600) \div 60)
         \o Pad2(sec % 60) \o << "Z" >>)

(***************************************************************************)
(* aws-sigv4 with SignatureLocation::QueryParams.  Sha256 and Hmac are     *)
(* symbolic: the term of their inputs.  Hex shows a hash as one symbol of  *)
(* the text (the 64 hex digits, never looked into by any parser).          *)
(***************************************************************************)
Sha256(x) == << "SHA256", x >>
Hmac(key, msg) == << "HMAC", key, msg >>
Hex(h) == << ToString(h) >>
Join(parts, sep) ==
    Flatten([i \in 1..Len(parts) |-> IF i = 1 THEN parts[i] ELSE sep \o parts[i]])

\* v4::generate_signing_key(secret, time, region, name).  The first is the
\* faulty variant that derives every key for "us-east-1".
WrongRegionSigningKey(secret, time, region, name) ==
    Hmac(Hmac(Hmac(Hmac(<< "AWS4" >> \o secret, FormatDate(time)), UsEast1), name),
         Aws4Request)
generate_signing_key(secret, time, region, name) ==
    Hmac(Hmac(Hmac(Hmac(<< "AWS4" >> \o secret, FormatDate(time)), region), name),
         Aws4Request)

\* The credential scope "date/region/name/aws4_request".
Scope(time, region, name) ==
    Join(<< FormatDate(time), region, name, Aws4Request >>, << "/" >>)

\* The canonical query string is the sorted list of the request's own pairs
\* and the X-Amz-* values: a bag of pairs.
CanonicalQuery(pairs) ==
    [p \in {pairs[i] : i \in 1..Len(pairs)} |->
        Cardinality({i \in 1..Len(pairs) : pairs[i] = p})]
\* The canonical request: method, path, query, the host header (without the
\* port when it is the scheme's default), the signed headers, the hash of
\* the empty body.
CanonicalRequest(req, pairs) ==
    << "GET", req.path, CanonicalQuery(pairs),
       IF req.port = None \/ req.port = Some(ToDecimal(HttpsDefaultPort))
       THEN req.host ELSE req.authority,
       HostHeader, Sha256(<< >>) >>
\* The X-Amz-* values of the query, but for the signature.
QueryParamValues(params, scope) ==
    << << X_AMZ_ALGORITHM, Aws4HmacSha256 >>,
       << X_AMZ_CREDENTIAL, params.identity.access_key_id \o << "/" >> \o scope >>,
       << X_AMZ_DATE, FormatDateTime(params.time) >>,
       << X_AMZ_EXPIRES, ToDecimal(Unwrap(params.settings.expires_in).secs) >>,
       << X_AMZ_SIGNED_HEADERS, HostHeader >> >>
SecurityToken(creds) ==
    IF IsSome(creds.session_token)
    THEN << << X_AMZ_SECURITY_TOKEN, Unwrap(creds.session_token) >> >>
    ELSE << >>
\* sign(signable_request, &signing_params): the parameters of
\* SigningInstructions::params(), in the order aws-sigv4 pushes them, and the
\* signing key that was derived.
Sign(req, params) ==
    With(Scope(params.time, params.region, params.name), LAMBDA scope :
    With(QueryParamValues(params, scope), LAMBDA values :
    With(SecurityToken(params.identity), LAMBDA token :
    With(generate_signing_key(params.identity.secret_access_key, params.time,
                              params.region, params.name), LAMBDA key :
    With(<< Aws4HmacSha256, FormatDateTime(params.time), scope,
            Sha256(CanonicalRequest(req,
                (IF IsSome(req.query) THEN FormParse(Unwrap(req.query)) ELSE << >>)
                \o values \o token)) >>, LAMBDA string_to_sign :
         [params |-> values \o << << X_AMZ_SIGNATURE, Hex(Hmac(key, string_to_sign)) >> >>
                     \o token,
          key |-> key])))))

(***************************************************************************)
(* Signer (src/src/sign.rs).  A Duration is its whole seconds and its      *)
(* nanoseconds.                                                            *)
(***************************************************************************)
Duration(secs, nanos) == [secs |-> secs, nanos |-> nanos]
from_secs(secs) == Duration(secs, 0)
DefaultSigner ==
    [expires_in |-> from_secs(900), host |-> Localhost, port |-> 5432,
     user |-> Postgres, region |-> None]

\* format!("https://{hostname}:{port}/?Action=connect&DBUser={username}")
FormatUrl(self) ==
    HttpsPrefix \o self.host \o << ":" >> \o ToDecimal(self.port) \o << "/", "?" >>
    \o ActionConnect \o << "&" >> \o DBUserKey \o << "=" >> \o self.user

\* self.region.clone().unwrap_or_else(|| config.region().map_or_else(|| "us-east-1", ..))
\* The first is the faulty variant that prefers the ambient region.
AmbientFirstRegion(configured, ambient) ==
    IF IsSome(ambient) THEN Unwrap(ambient)
    ELSE IF IsSome(configured) THEN Unwrap(configured) ELSE UsEast1
ResolveRegion(configured, ambient) ==
    IF IsSome(configured) THEN Unwrap(configured)
    ELSE IF IsSome(ambient) THEN Unwrap(ambient) ELSE UsEast1

\* String::split_off(at): the text from byte at on.
SplitOff(s, at) == Drop(s, at)

\* SigningSettings: expires_in is the Signer's, the signature goes into the
\* query parameters.  The first is the faulty variant that always signs for
\* the default 900 s.
DefaultExpirySettings(self) ==
    [expires_in |-> Some(from_secs(900)), signature_location |-> "QueryParams"]
SigningSettingsOf(self) ==
    [expires_in |-> Some(self.expires_in), signature_location |-> "QueryParams"]

\* fetch_token from the point where the credentials are in hand: the region,
\* the signing parameters, the URL, SignableRequest::new, sign, Url::parse,
\* append_pair for every signing parameter, and the scheme cut off.
\* SigningParams::builder()...build() is given every field, so it succeeds.
SignedToken(self, ambient, credentials, time) ==
    With(ResolveRegion(self.region, ambient), LAMBDA region :
    With([identity |-> credentials, region |-> region, name |-> RdsDb, time |-> time,
          settings |-> SigningSettingsOf(self)], LAMBDA signing_params :
    With(FormatUrl(self), LAMBDA url :
    With(HttpUriParse(url), LAMBDA signable_request :
         IF ~signable_request.ok
         THEN [result |-> Err(SignerError, "failed to create canonical request"),
               region |-> Some(region), key |-> None]
         ELSE With(Sign(signable_request, signing_params), LAMBDA signed :
              With(UrlParse(url), LAMBDA parsed :
                   IF ~parsed.ok
                   THEN [result |-> Err(ParseError, parsed.err), region |-> Some(region),
                         key |-> Some(signed.key)]
                   ELSE [result |-> Ok(SplitOff(UrlToString(AppendPairs(parsed,
                                                                       signed.params)),
                                                Len(HttpsPrefix))),
                         region |-> Some(region), key |-> Some(signed.key)]))))))

(***************************************************************************)
(* SignerBuilder: every setter writes its own field of the Signer the      *)
(* builder holds and hands the builder back; build hands the Signer out.   *)
(***************************************************************************)
Signer_default == DefaultSigner
SignerBuilder_new == [signer |-> Signer_default]
Signer_builder == SignerBuilder_new
SignerBuilder_expires_in(b, d) == [b EXCEPT !.signer.expires_in = d]
\* The first is the faulty variant of host that puts the port back to 5432.
HostResettingPort(b, h) == [b EXCEPT !.signer.host = h, !.signer.port = 5432]
SignerBuilder_host(b, h) == [b EXCEPT !.signer.host = h]
SignerBuilder_port(b, p) == [b EXCEPT !.signer.port = p]
SignerBuilder_region(b, r) == [b EXCEPT !.signer.region = Some(r)]
SignerBuilder_user(b, u) == [b EXCEPT !.signer.user = u]
SignerBuilder_build(b) == b.signer

(***************************************************************************)
(* The values the model draws arguments and the environment from.          *)
(***************************************************************************)
EuWest1 == << "e", "u", "-", "w", "e", "s", "t", "-", "1" >>
ApSouth1 == << "a", "p", "-", "s", "o", "u", "t", "h", "-", "1" >>
Hosts == {Localhost, << "D", "b" >>, << >>, << "d", " ", "b" >>}
Users == {Postgres, << >>, << "a", "&", "b" >>, << "a", "=", "b" >>, << "a", "#", "b" >>,
          << "a", " ", "b" >>}
Ports == {0, HttpsDefaultPort, 5432, U16Max}
RegionNames == {EuWest1}
Durations == {from_secs(900), from_secs(3600), from_secs(0), Duration(1, 500000000)}
AmbientRegions == {None, Some(ApSouth1)}
CredsPlain ==
    [access_key_id |-> << "A", "K", "1" >>, secret_access_key |-> << "s", "1" >>,
     session_token |-> None]
CredsSession ==
    [access_key_id |-> << "A", "K", "2" >>, secret_access_key |-> << "s", "2" >>,
     session_token |-> Some(<< "t", "/", "+" >>)]
CredentialsSet == {CredsPlain, CredsSession}
\* What provide_credentials().await yields: credentials, or a failure whose
\* Display is msg.
ProviderOutcomes ==
    {[credentials |-> Some(c), msg |-> ""] : c \in CredentialsSet}
    \cup {[credentials |-> None, msg |-> "the credential provider was not enabled"]}

\* The number of fetch_token calls made on the Signer.
MaxCalls == 2
\* The number of steps the clock makes; the clock starts at 2024-01-15
\* 10:00:00 UTC and steps by seven hours, so that two readings share a date
\* and the third falls on the next day.
MaxClock == 2
ClockStart == 1705312800
ClockStep == 25200
CallIds == 1..MaxCalls
TimeAt(n) == ClockStart + n * ClockStep

AllSigners ==
    [expires_in : Durations, host : Hosts, port : Ports, user : Users,
     region : {None} \cup {Some(r) : r \in RegionNames}]
FieldsChanged(s) ==
    Cardinality({f \in {"expires_in", "host", "port", "user", "region"} :
                   s[f] # DefaultSigner[f]})
\* The Signers the calls are modelled on: the default one and those one
\* setter call away from it.
Signers == {s \in AllSigners : FieldsChanged(s) <= 1}
\* The Signers of the expiry comparison: they differ in expires_in alone.
ExpirySigners == {s \in AllSigners : \A f \in {"host", "port", "user", "region"} :
                                        s[f] = DefaultSigner[f]}

(***************************************************************************)
(* State.                                                                  *)
(*   builder  the SignerBuilder being configured (None: there is none)     *)
(*   given    per field, the argument of the last setter call on builder   *)
(*   signer   the built Signer (None: not built yet)                       *)
(*   calls    the fetch_token futures: where each stands, its locals, and  *)
(*            what it was handed (the Signer it borrowed, the credentials, *)
(*            the time) and what it returned                               *)
(*   now      the clock, in steps of ClockStep seconds from ClockStart     *)
(*   raced    whether a call returned while another call was awaiting      *)
(***************************************************************************)
VARIABLES builder, given, signer, calls, now, raced
vars == << builder, given, signer, calls, now, raced >>

NoGiven == [expires_in |-> None, host |-> None, port |-> None, user |-> None,
            region |-> None]
GivenOf(s) ==
    [f \in {"expires_in", "host", "port", "user"} |->
        IF s[f] = DefaultSigner[f] THEN None ELSE Some(s[f])]
    @@ [f \in {"region"} |-> s.region]
IdleCall ==
    [pc |-> "idle", self |-> None, config |-> None, fetches |-> 0, outcome |-> None,
     time |-> None, region |-> None, key |-> None, result |-> None]

InFlight(c) == calls[c].pc \in {"loading", "fetching"}

InitBuilder ==
    /\ builder = None
    /\ given = NoGiven
    /\ signer = None
    /\ calls = [c \in CallIds |-> IdleCall]
    /\ now = 0
    /\ raced = FALSE

Init ==
    /\ builder = None
    /\ \E s \in Signers : signer = Some(s) /\ given = GivenOf(s)
    /\ calls = [c \in CallIds |-> IdleCall]
    /\ now = 0
    /\ raced = FALSE

InitExpiry ==
    /\ builder = None
    /\ \E s \in ExpirySigners : signer = Some(s) /\ given = GivenOf(s)
    /\ calls = [c \in CallIds |-> IdleCall]
    /\ now = 0
    /\ raced = FALSE

(***************************************************************************)
(* Building a Signer.                                                      *)
(***************************************************************************)
Default ==
    /\ builder = None /\ signer = None
    /\ signer' = Some(Signer_default)
    /\ UNCHANGED << builder, given, calls, now, raced >>

Builder ==
    /\ builder = None /\ signer = None
    /\ builder' = Some(Signer_builder)
    /\ given' = NoGiven
    /\ UNCHANGED << signer, calls, now, raced >>

ExpiresIn ==
    /\ IsSome(builder)
    /\ \E d \in Durations :
        /\ builder' = Some(SignerBuilder_expires_in(Unwrap(builder), d))
        /\ given' = [given EXCEPT !.expires_in = Some(d)]
    /\ UNCHANGED << signer, calls, now, raced >>

Host ==
    /\ IsSome(builder)
    /\ \E h \in Hosts :
        /\ builder' = Some(SignerBuilder_host(Unwrap(builder), h))
        /\ given' = [given EXCEPT !.host = Some(h)]
    /\ UNCHANGED << signer, calls, now, raced >>

Port ==
    /\ IsSome(builder)
    /\ \E p \in Ports :
        /\ builder' = Some(SignerBuilder_port(Unwrap(builder), p))
        /\ given' = [given EXCEPT !.port = Some(p)]
    /\ UNCHANGED << signer, calls, now, raced >>

Region ==
    /\ IsSome(builder)
    /\ \E r \in RegionNames :
        /\ builder' = Some(SignerBuilder_region(Unwrap(builder), r))
        /\ given' = [given EXCEPT !.region = Some(r)]
    /\ UNCHANGED << signer, calls, now, raced >>

User ==
    /\ IsSome(builder)
    /\ \E u \in Users :
        /\ builder' = Some(SignerBuilder_user(Unwrap(builder), u))
        /\ given' = [given EXCEPT !.user = Some(u)]
    /\ UNCHANGED << signer, calls, now, raced >>

Build ==
    /\ IsSome(builder)
    /\ signer' = Some(SignerBuilder_build(Unwrap(builder)))
    /\ builder' = None
    /\ UNCHANGED << given, calls, now, raced >>

\* Between two calls the Signer is dropped and another one, with another
\* expires_in, is built in its place; no future borrows a Signer that is dropped.
Rebuild ==
    /\ IsSome(signer)
    /\ \A c \in CallIds : ~InFlight(c)
    /\ \E c \in CallIds : calls[c].pc = "done"
    /\ \E c \in CallIds : calls[c].pc = "idle"
    /\ \E s \in ExpirySigners :
        /\ Some(s) # signer
        /\ signer' = Some(s)
        /\ given' = GivenOf(s)
    /\ UNCHANGED << builder, calls, now, raced >>

(***************************************************************************)
(* fetch_token(&self).  The future stops at two awaits: load_defaults and  *)
(* provide_credentials; everything after the credentials runs in one go.   *)
(***************************************************************************)
\* What a call leaves of the Signer it borrowed: fetch_token takes &self and
\* assigns to no field.  The first is the faulty variant that stores the
\* resolved region in the Signer.
SignerCachingRegion(self, region) == [self EXCEPT !.region = region]
SignerAfterCall(self, region) == self

\* How a failure of the credential step leaves fetch_token: ok_or_else(..)?
\* and map_err(|e| Error::SignerError(e.to_string()))?.  The first is the
\* faulty variant that swallows the failure and returns an empty token.
CredentialsFailureSwallowed(msg) == Ok(<< >>)
CredentialsFailure(msg) == Err(SignerError, msg)

\* Another call is awaiting while call c returns.
Overlaps(c) == \E d \in CallIds \ {c} : InFlight(d)

\* fetch_token is called: the future is created on the shared Signer.
Call(c) ==
    /\ IsSome(signer)
    /\ calls[c].pc = "idle"
    /\ calls' = [calls EXCEPT ![c] = [@ EXCEPT !.pc = "loading", !.self = signer]]
    /\ UNCHANGED << builder, given, signer, now, raced >>

\* aws_config::load_defaults(..).await returns: the ambient region and the
\* credentials provider, if any.  Without a provider the call ends here.
LoadDefaults(c) ==
    /\ calls[c].pc = "loading"
    /\ \E region \in AmbientRegions, provider \in BOOLEAN :
        \E config \in {[region |-> region, credentials_provider |-> provider]} :
           calls' = [calls EXCEPT ![c] =
              IF provider
              THEN [@ EXCEPT !.pc = "fetching", !.config = Some(config)]
              ELSE [@ EXCEPT !.pc = "done", !.config = Some(config),
                             !.result = Some(CredentialsFailure(
                                                 "no credentials provider found"))]]
    /\ UNCHANGED << builder, given, signer, now, raced >>

\* provide_credentials().await returns.  A failure ends the call; with the
\* credentials the rest of fetch_token runs to its return.
ProvideCredentials(c) ==
    /\ calls[c].pc = "fetching"
    /\ \E outcome \in ProviderOutcomes :
        IF outcome.credentials = None
        THEN /\ calls' = [calls EXCEPT ![c] =
                    [@ EXCEPT !.pc = "done", !.fetches = @ + 1, !.outcome = Some(outcome),
                              !.result = Some(CredentialsFailure(outcome.msg))]]
             /\ signer' = signer
        ELSE \E out \in {SignedToken(Unwrap(signer), Unwrap(calls[c].config).region,
                                      Unwrap(outcome.credentials), TimeAt(now))} :
                /\ calls' = [calls EXCEPT ![c] =
                       [@ EXCEPT !.pc = "done", !.fetches = @ + 1,
                                 !.outcome = Some(outcome), !.time = Some(TimeAt(now)),
                                 !.region = out.region, !.key = out.key,
                                 !.result = Some(out.result)]]
                /\ signer' = Some(SignerAfterCall(Unwrap(signer), out.region))
    /\ raced' = (raced \/ Overlaps(c))
    /\ UNCHANGED << builder, given, now >>

\* The future is dropped while it awaits: its locals go, nothing else changes.
Cancel(c) ==
    /\ InFlight(c)
    /\ calls' = [calls EXCEPT ![c] = [@ EXCEPT !.pc = "cancelled", !.config = None]]
    /\ UNCHANGED << builder, given, signer, now, raced >>

Tick ==
    /\ now < MaxClock
    /\ now' = now + 1
    /\ UNCHANGED << builder, given, signer, calls, raced >>

FetchToken ==
    \E c \in CallIds : Call(c) \/ LoadDefaults(c) \/ ProvideCredentials(c) \/ Cancel(c)

NextBuilder == Default \/ Builder \/ ExpiresIn \/ Host \/ Port \/ Region \/ User \/ Build
Next == FetchToken \/ Tick
NextExpiry == FetchToken \/ Tick \/ Rebuild

SpecBuilder == InitBuilder /\ [][NextBuilder]_vars
Spec == Init /\ [][Next]_vars
SpecExpiry == InitExpiry /\ [][NextExpiry]_vars

(***************************************************************************)
(* Reading a call and the token it returned.                               *)
(***************************************************************************)
Done(c) == calls[c].pc = "done"
Result(c) == Unwrap(calls[c].result)
Returned(c) == Done(c) /\ Result(c).ok
Self(c) == Unwrap(calls[c].self)
Config(c) == Unwrap(calls[c].config)
\* The call was handed credentials (and so ran to the end of fetch_token).
HasCredentials(c) ==
    Done(c) /\ IsSome(calls[c].outcome) /\ IsSome(Unwrap(calls[c].outcome).credentials)
Credentials(c) == Unwrap(Unwrap(calls[c].outcome).credentials)
\* The token with the scheme put back, parsed as a URL, and its query pairs.
Reparsed(token) == UrlParse(HttpsPrefix \o token)
PairsOf(token) ==
    LET u == Reparsed(token)
    IN IF u.ok /\ IsSome(u.query) THEN FormParse(Unwrap(u.query)) ELSE << >>
Count(pairs, name) == Cardinality({i \in 1..Len(pairs) : pairs[i][1] = name})
\* The value of the last pair called name.
ValueOf(pairs, name) ==
    pairs[Max({i \in 1..Len(pairs) : pairs[i][1] = name})][2]
SigningNames ==
    {X_AMZ_ALGORITHM, X_AMZ_CREDENTIAL, X_AMZ_SIGNED_HEADERS, X_AMZ_DATE, X_AMZ_EXPIRES,
     X_AMZ_SIGNATURE}

(***************************************************************************)
(* C1: with credentials in hand, a host or user that makes the assembled   *)
(* URL malformed makes fetch_token return Err(ParseError), never another   *)
(* error kind and never Ok.                                                *)
(***************************************************************************)
C1_MalformedUrlIsParseError ==
    \A c \in CallIds :
        (HasCredentials(c) /\ ~UrlParse(FormatUrl(Self(c))).ok)
        => (~Result(c).ok /\ Result(c).kind = ParseError)

(***************************************************************************)
(* C2: a failed credential step ends the call with Err(SignerError(msg)),  *)
(* msg the cause's message, whatever the configuration; the fetch is not   *)
(* retried; a call ends in exactly one of Ok(complete token) and Err(typed *)
(* error), the error being that of the first failing step in the order     *)
(* credentials, signable request, URL parse; no call that has not returned *)
(* holds a token.                                                          *)
(***************************************************************************)
C2_FailurePropagation ==
    \A c \in CallIds :
        /\ calls[c].fetches <= 1
        /\ ~Done(c) => calls[c].result = None
        /\ Done(c) =>
            /\ IsSome(calls[c].result)
            /\ IF Result(c).ok
               THEN /\ Result(c).kind = "" /\ Result(c).token # << >>
                    /\ Count(PairsOf(Result(c).token), X_AMZ_SIGNATURE) >= 1
               ELSE Result(c).kind \in ErrorKinds /\ Result(c).token = << >>
            /\ IF ~Config(c).credentials_provider
               THEN /\ Result(c) = Err(SignerError, "no credentials provider found")
                    /\ calls[c].fetches = 0
               ELSE IF ~HasCredentials(c)
               THEN Result(c) = Err(SignerError, Unwrap(calls[c].outcome).msg)
               ELSE IF ~HttpUriParse(FormatUrl(Self(c))).ok
               THEN ~Result(c).ok /\ Result(c).kind = SignerError
               ELSE IF ~UrlParse(FormatUrl(Self(c))).ok
               THEN /\ ~Result(c).ok /\ Result(c).kind = ParseError
                    /\ Result(c).msg = UrlParse(FormatUrl(Self(c))).err
               ELSE Result(c).ok
\* A call on a Signer with a malformed host whose credential fetch failed.
C2_Witness ==
    \E c \in CallIds :
        /\ Done(c) /\ IsSome(calls[c].outcome) /\ ~HasCredentials(c)
        /\ ~UrlParse(FormatUrl(Self(c))).ok
        /\ Result(c) = Err(SignerError, "the credential provider was not enabled")

(***************************************************************************)
(* C3: the region a call signs for is the configured one when there is     *)
(* one, else the ambient one when there is one, else "us-east-1"; the      *)
(* credential scope of the token holds exactly that region.                *)
(***************************************************************************)
C3_ExpectedRegion(c) ==
    IF Self(c).region # None THEN Self(c).region[1]
    ELSE IF Config(c).region # None THEN Config(c).region[1]
    ELSE << "u", "s", "-", "e", "a", "s", "t", "-", "1" >>
C3_RegionFallback ==
    \A c \in CallIds :
        HasCredentials(c) =>
            /\ calls[c].region = << C3_ExpectedRegion(c) >>
            /\ Returned(c) =>
                Split(ValueOf(PairsOf(Result(c).token), X_AMZ_CREDENTIAL), "/")[3]
                    = C3_ExpectedRegion(c)
\* A token signed for the configured region although an ambient one exists.
C3_Witness ==
    \E c \in CallIds :
        /\ Returned(c)
        /\ Self(c).region = Some(EuWest1) /\ Config(c).region = Some(ApSouth1)
        /\ Split(ValueOf(PairsOf(Result(c).token), X_AMZ_CREDENTIAL), "/")[3] = EuWest1

(***************************************************************************)
(* C4: the query of every token holds, each once and nothing else:         *)
(* Action=connect, DBUser with the configured user as its decoded value,   *)
(* the six signing parameters, and X-Amz-Security-Token exactly when the   *)
(* credentials carry a session token; Action and DBUser come first.        *)
(***************************************************************************)
C4_QueryParameters ==
    \A c \in CallIds :
        Returned(c) =>
            LET pairs == PairsOf(Result(c).token)
                withToken == IsSome(Credentials(c).session_token)
            IN /\ Result(c).token # << >>
               /\ Len(pairs) = 8 + (IF withToken THEN 1 ELSE 0)
               /\ pairs[1] = << ActionKey, ConnectValue >>
               /\ pairs[2] = << DBUserKey, Self(c).user >>
               /\ \A n \in SigningNames : Count(pairs, n) = 1
               /\ Count(pairs, X_AMZ_SECURITY_TOKEN) = (IF withToken THEN 1 ELSE 0)

(***************************************************************************)
(* C5: a token never starts with "https://" and reads                      *)
(* "<host>:<port>/?Action=connect&DBUser=..." with the configured host and *)
(* port; with "https://" put back it parses as a URL that gives back the   *)
(* configured host and port.                                               *)
(***************************************************************************)
C5_SchemeStripped ==
    \A c \in CallIds :
        Returned(c) =>
            /\ ~StartsWith(Result(c).token, HttpsPrefix)
            /\ StartsWith(Result(c).token,
                          Self(c).host \o << ":" >> \o ToDecimal(Self(c).port)
                          \o << "/", "?" >> \o ActionConnect \o << "&" >> \o DBUserKey
                          \o << "=" >>)
            /\ Reparsed(Result(c).token).ok
            /\ Reparsed(Result(c).token).host = Self(c).host
            /\ Reparsed(Result(c).token).port = Some(Self(c).port)

(***************************************************************************)
(* C6 as claimed: X-Amz-Expires is expires_in in whole seconds, and two    *)
(* tokens of calls that agree on host, port, user, region, credentials and *)
(* time differ in the value of X-Amz-Expires alone.                        *)
(***************************************************************************)
SameButExpiry(c, d) ==
    /\ Returned(c) /\ Returned(d)
    /\ \A f \in {"host", "port", "user", "region"} : Self(c)[f] = Self(d)[f]
    /\ calls[c].region = calls[d].region
    /\ Credentials(c) = Credentials(d)
    /\ calls[c].time = calls[d].time
ExpiresIsWholeSeconds(c) ==
    ValueOf(PairsOf(Result(c).token), X_AMZ_EXPIRES) = ToDecimal(Self(c).expires_in.secs)
\* The two tokens are the same text up to the values of the parameters in names.
DifferOnlyIn(t1, t2, names) ==
    LET u1 == Reparsed(t1)
        u2 == Reparsed(t2)
        p1 == PairsOf(t1)
        p2 == PairsOf(t2)
    IN /\ u1.host = u2.host /\ u1.port = u2.port /\ u1.path = u2.path
       /\ u1.fragment = u2.fragment
       /\ Len(p1) = Len(p2)
       /\ \A i \in 1..Len(p1) :
            /\ p1[i][1] = p2[i][1]
            /\ p1[i][1] \notin names => p1[i][2] = p2[i][2]
C6_OnlyExpiresDiffers ==
    /\ \A c \in CallIds : Returned(c) => ExpiresIsWholeSeconds(c)
    /\ \A c, d \in CallIds :
        (c # d /\ SameButExpiry(c, d))
            => DifferOnlyIn(Result(c).token, Result(d).token, {X_AMZ_EXPIRES})

(***************************************************************************)
(* C6 as amended: X-Amz-Expires is expires_in in whole seconds, and two    *)
(* such tokens differ in the values of X-Amz-Expires and X-Amz-Signature   *)
(* alone (the signature covers X-Amz-Expires).                             *)
(***************************************************************************)
C6_ExpiresAndSignatureDiffer ==
    /\ \A c \in CallIds : Returned(c) => ExpiresIsWholeSeconds(c)
    /\ \A c, d \in CallIds :
        (c # d /\ SameButExpiry(c, d))
            => DifferOnlyIn(Result(c).token, Result(d).token,
                            {X_AMZ_EXPIRES, X_AMZ_SIGNATURE})
\* Two tokens for 900 s and 3600 s, all else equal.
C6_Witness ==
    \E c, d \in CallIds :
        /\ SameButExpiry(c, d)
        /\ Self(c).expires_in = [secs |-> 900, nanos |-> 0]
        /\ Self(d).expires_in = [secs |-> 3600, nanos |-> 0]
        /\ ValueOf(PairsOf(Result(d).token), X_AMZ_EXPIRES) = << "3", "6", "0", "0" >>

(***************************************************************************)
(* C7: every Signer that default() or the builder hands out has a          *)
(* non-empty host, a non-empty user and an expires_in above zero.          *)
(***************************************************************************)
C7_SignerInvariant ==
    IsSome(signer) =>
        /\ Unwrap(signer).host # << >>
        /\ Unwrap(signer).user # << >>
        /\ Unwrap(signer).expires_in.secs + Unwrap(signer).expires_in.nanos > 0

(***************************************************************************)
(* C8: calls running together on one Signer: each call fetches its own     *)
(* credentials, at most once; what it returns is what it returns running   *)
(* alone on the Signer it was called on, with the configuration,           *)
(* credentials and time it was handed; and the Signer is as it was when    *)
(* the call began, whether the call returned, failed or was cancelled.     *)
(***************************************************************************)
C8_CallsIndependent ==
    \A c \in CallIds :
        /\ calls[c].fetches <= 1
        /\ calls[c].pc # "idle" => signer = calls[c].self
        /\ calls[c].pc = "cancelled" => calls[c].result = None
        /\ HasCredentials(c) =>
            /\ calls[c].fetches = 1
            /\ Result(c) = SignedToken(Self(c), Config(c).region, Credentials(c),
                                       Unwrap(calls[c].time)).result
            /\ Returned(c) =>
                Split(ValueOf(PairsOf(Result(c).token), X_AMZ_CREDENTIAL), "/")[1]
                    = Credentials(c).access_key_id
\* Two calls on the Signer returned tokens for different credentials and
\* ambient regions, the first of them while the other was awaiting.
C8_Witness ==
    \E c, d \in CallIds :
        /\ Returned(c) /\ Returned(d)
        /\ raced
        /\ Credentials(c) = CredsPlain /\ Credentials(d) = CredsSession
        /\ Config(c).region # Config(d).region

(***************************************************************************)
(* C9: the signing key of a call is the HMAC chain over "AWS4" + secret,   *)
(* the UTC date of the call's time, the resolved region, the fixed service *)
(* "rds-db" and "aws4_request"; the credential scope names the same date,  *)
(* region and service; two calls use the same key exactly when their       *)
(* secret, date and region agree.                                          *)
(***************************************************************************)
C9_Date(c) == FormatDate(Unwrap(calls[c].time))
C9_KeyScope ==
    \A c, d \in CallIds :
        (IsSome(calls[c].key) /\ IsSome(calls[d].key)) =>
            /\ Unwrap(calls[c].key)
                 = << "HMAC",
                      << "HMAC",
                         << "HMAC",
                            << "HMAC", << "AWS4" >> \o Credentials(c).secret_access_key,
                               C9_Date(c) >>,
                            Unwrap(calls[c].region) >>,
                         << "r", "d", "s", "-", "d", "b" >> >>,
                      << "a", "w", "s", "4", "_", "r", "e", "q", "u", "e", "s", "t" >> >>
            /\ Returned(c) =>
                Drop(Split(ValueOf(PairsOf(Result(c).token), X_AMZ_CREDENTIAL), "/"), 1)
                    = << C9_Date(c), Unwrap(calls[c].region),
                         << "r", "d", "s", "-", "d", "b" >>,
                         << "a", "w", "s", "4", "_", "r", "e", "q", "u", "e", "s", "t" >> >>
            /\ (calls[c].key = calls[d].key)
                <=> /\ Credentials(c).secret_access_key = Credentials(d).secret_access_key
                    /\ C9_Date(c) = C9_Date(d)
                    /\ calls[c].region = calls[d].region
\* Two calls with the same secret and region on different days: two keys.
C9_Witness ==
    \E c, d \in CallIds :
        /\ Returned(c) /\ Returned(d)
        /\ Credentials(c) = Credentials(d)
        /\ calls[c].region = Some(ApSouth1) /\ calls[d].region = Some(ApSouth1)
        /\ C9_Date(c) # C9_Date(d)
        /\ calls[c].key # calls[d].key

(***************************************************************************)
(* C10: the builder's Signer, and the Signer build() hands out, hold for   *)
(* each field the argument of the last call of its setter, and the default *)
(* (900 s, "localhost", 5432, "postgres", no region) when there was none.  *)
(***************************************************************************)
C10_Expected ==
    [expires_in |-> IF given.expires_in = None THEN [secs |-> 900, nanos |-> 0]
                    ELSE given.expires_in[1],
     host |-> IF given.host = None
              THEN << "l", "o", "c", "a", "l", "h", "o", "s", "t" >> ELSE given.host[1],
     port |-> IF given.port = None THEN 5432 ELSE given.port[1],
     user |-> IF given.user = None
              THEN << "p", "o", "s", "t", "g", "r", "e", "s" >> ELSE given.user[1],
     region |-> given.region]
C10_LastSetterWins ==
    /\ IsSome(builder) => Unwrap(builder).signer = C10_Expected
    /\ IsSome(signer) => Unwrap(signer) = C10_Expected
\* A built Signer all of whose setters were called, the port away from its default.
C10_Witness ==
    /\ IsSome(signer)
    /\ \A f \in {"expires_in", "host", "port", "user", "region"} : given[f] # None
    /\ Unwrap(signer).port = 443 /\ Unwrap(signer).host = << "D", "b" >>
    /\ Unwrap(signer).expires_in = [secs |-> 3600, nanos |-> 0]

====
